---- MODULE Spec2Model ----
(***************************************************************************)
(* A model of package goose (internal/goose/goose.go): Generate loads a    *)
(* program, and for every injector function of the package runs            *)
(* gen.inject, which calls solve, which merges the provider sets with      *)
(* buildProviderMap (reading them through providerSetCache.get) and then   *)
(* resolves the wanted type depth first; inject finally emits the          *)
(* injector's text into the generator's buffer.                            *)
(***************************************************************************)
EXTENDS Integers, Sequences, FiniteSets, TLC

VARIABLES
    prog,       \* the loaded program: packages with their provider sets, injectors
    mc,         \* providerSetCache.sets: package path -> (set name -> providerSet)
    g,          \* the generator: currPackage, buf, imports, n
    pc,         \* where Generate is: "gen", "bpm", "visit", "emit", "exit"
    k,          \* index of the injector Generate is at (1-based)
    inj,        \* the running inject call: returnsErr, outType, given, sets
    next,       \* buildProviderMap: the queue of nextEnt
    visited,    \* buildProviderMap: the set of references seen
    pm,         \* buildProviderMap: output type -> providerInfo
    index,      \* solve: type -> slot
    calls,      \* solve: the calls so far
    stack,      \* solve: the activations of visit, innermost last
    heap,       \* the backing arrays of the trail slices
    ret,        \* the outcome of the last inject: "none" while it runs, "ok", "err", "panic"
    err,        \* the error returned, NoErr if none
    gets,       \* history: the references passed to providerSetCache.get by this solve
    gEntry,     \* history: the generator as it was when inject was entered
    asked,      \* history: the calls of qualifyImport a client made on g, with the names returned
    done,       \* history: what solve returned for the injectors already written
    got,        \* history: the outcome of every providerSetCache.get on mc, in order
    ndequeue,   \* history: the entries buildProviderMap has dequeued
    nvisit,     \* history: the calls of visit made by this solve
    out         \* what Generate returned: the framed source

vars == <<prog, mc, g, pc, k, inj, next, visited, pm, index, calls, stack, heap,
          ret, err, gets, gEntry, asked, done, got, ndequeue, nvisit, out>>

--------------------------------------------------------------------------
(* The universe of the model.                                              *)

MaxArgs == 2      \* parameters of a provider
MaxEdges == 3     \* provider parameters in a whole catalog
MaxGiven == 2     \* parameters of an injector
MaxRoots == 2     \* goose:use directives of an injector
MaxAsked == 4     \* calls of qualifyImport on one generator
MaxGets == 3      \* calls of get on one cache
MaxImports == 2   \* goose:import directives in a whole program
MaxQueue == 4     \* roots and import directives together

Types == {"A", "B", "C"}
TypeOrder == <<"A", "B", "C">>
errorType == "error"

\* Two more types, for the dependency chains that are three providers deep.
DeepTypes == {"D", "E"}
DeepOrder == <<"A", "B", "C", "D", "E">>

\* The package that declares each type, and the category of its underlying type.
TypePkg ==
    [t \in Types \cup DeepTypes |->
        CASE t = "A" -> "cur" [] t = "B" -> "ext" [] t = "C" -> "lib" [] OTHER -> "cur"]
TypeKind ==
    [t \in Types \cup DeepTypes |->
        CASE t = "A" -> "struct" [] t = "B" -> "pointer" [] OTHER -> "int"]

CurrPackage == "cur"
SetPkgs == {"cur", "ext"}
PkgOrder == <<"cur", "ext", "lib">>

Ref(path, name) == [importPath |-> path, name |-> name]
Refs == {Ref("cur", "M"), Ref("ext", "M"), Ref("ext", "N")}
NoRef == Ref("", "")
NoPos == 0

NoErr == [kind |-> "nil"]

Range(s) == {s[i] : i \in 1..Len(s)}

DistinctSeqs(S, n) == {s \in [1..n -> S] : \A i, j \in 1..n : i # j => s[i] # s[j]}

SeqsUpTo(S, n) == UNION {[1..m -> S] : m \in 0..n}

\* A providerInfo as findProviderSets builds it.
Provider(ref, t, args, hasErr) ==
    [importPath |-> ref.importPath, funcName |-> <<ref.name, t>>,
     args |-> args, out |-> t, hasErr |-> hasErr]

\* A providerSet.
ProviderSet(providers, imports) == [providers |-> providers, imports |-> imports]

Package(status, sets) == [status |-> status, sets |-> sets]

Injector(results, given, sets) == [results |-> results, given |-> given, sets |-> sets]

--------------------------------------------------------------------------
(* Maps (typeutil.Map, Go maps) are functions on the keys that are set.    *)

Put(f, x, v) == [y \in DOMAIN f \cup {x} |-> IF y = x THEN v ELSE f[y]]

NilSet == ProviderSet(<<>>, <<>>)

--------------------------------------------------------------------------
(* providerSetCache                                                         *)

\* getpkg and findProviderSets on the loaded program: what analysing the
\* package of path gives.
getpkg(path) == prog.pkgs[path].status # "missing"

findProviderSets(path) ==
    IF prog.pkgs[path].status = "bad"
    THEN [ok |-> FALSE, sets |-> <<>>]
    ELSE [ok |-> TRUE, sets |-> prog.pkgs[path].sets]

\* The lookup of ref.name in the sets of a package.
Lookup(cache, mods, ref) ==
    IF ref.name \in DOMAIN mods
    THEN [mc |-> cache, ok |-> TRUE, mod |-> mods[ref.name], err |-> NoErr]
    ELSE [mc |-> cache, ok |-> FALSE, mod |-> NilSet,
          err |-> [kind |-> "no such provider set", ref |-> ref]]

\* A reference of a cached package answered with a set that holds nothing.
getCachedEmpty(cache, ref) ==
    LET path == ref.importPath IN
    IF path \in DOMAIN cache
    THEN [mc |-> cache, ok |-> TRUE, mod |-> NilSet, err |-> NoErr]
    ELSE IF ~getpkg(path)
    THEN [mc |-> Put(cache, path, <<>>), ok |-> FALSE, mod |-> NilSet,
          err |-> [kind |-> "analyze package", ref |-> ref]]
    ELSE LET found == findProviderSets(path) IN
         IF ~found.ok
         THEN [mc |-> Put(cache, path, <<>>), ok |-> FALSE, mod |-> NilSet,
               err |-> [kind |-> "find provider sets", ref |-> ref]]
         ELSE Lookup(Put(cache, path, found.sets), found.sets, ref)

\* providerSetCache.get: the cache after the call, and the set or the error.
get(cache, ref) ==
    LET path == ref.importPath IN
    IF path \in DOMAIN cache
    THEN Lookup(cache, cache[path], ref)
    ELSE IF ~getpkg(path)
    THEN [mc |-> Put(cache, path, <<>>), ok |-> FALSE, mod |-> NilSet,
          err |-> [kind |-> "analyze package", ref |-> ref]]
    ELSE LET found == findProviderSets(path) IN
         IF ~found.ok
         THEN [mc |-> Put(cache, path, <<>>), ok |-> FALSE, mod |-> NilSet,
               err |-> [kind |-> "find provider sets", ref |-> ref]]
         ELSE Lookup(Put(cache, path, found.sets), found.sets, ref)

\* What a call of get returned for ref: the set, or the error.
Outcome(ref, r) == [ref |-> ref, ok |-> r.ok, mod |-> r.mod, err |-> r.err]

--------------------------------------------------------------------------
(* buildProviderMap                                                         *)

NextEnt(to, from, pos) == [to |-> to, from |-> from, pos |-> pos]

\* The queue buildProviderMap starts from.
RootEntries(sets) == [i \in 1..Len(sets) |-> NextEnt(sets[i], NoRef, NoPos)]

\* Only the first import of the set enqueued.
ImportEntriesFirst(mod, curr) ==
    [i \in 1..(IF mod.imports = <<>> THEN 0 ELSE 1) |->
        NextEnt(mod.imports[i], curr.to, i)]

\* The entries enqueued for the imports of the set curr names.
ImportEntries(mod, curr) ==
    [i \in 1..Len(mod.imports) |-> NextEnt(mod.imports[i], curr.to, i)]

MultipleBindings(pr, prev, curr) ==
    [kind |-> "multiple bindings", typ |-> pr.out, provider |-> pr, prev |-> prev,
     how |-> IF curr.from.importPath # "" THEN "added by injector" ELSE "imported by",
     from |-> curr.from]

\* The loop without the test of pm.At: a later binding replaces an earlier.
RECURSIVE BindProvidersOverride(_, _, _, _)
BindProvidersOverride(bindings, providers, curr, i) ==
    IF i > Len(providers) THEN [pm |-> bindings, err |-> NoErr]
    ELSE BindProvidersOverride(Put(bindings, providers[i].out, providers[i]),
                               providers, curr, i + 1)

\* The loop over mod.providers: the bindings after it and the error it
\* stopped with, from provider i on.
RECURSIVE BindProviders(_, _, _, _)
BindProviders(bindings, providers, curr, i) ==
    IF i > Len(providers) THEN [pm |-> bindings, err |-> NoErr]
    ELSE IF providers[i].out \in DOMAIN bindings
    THEN [pm |-> bindings,
          err |-> MultipleBindings(providers[i], bindings[providers[i].out], curr)]
    ELSE BindProviders(Put(bindings, providers[i].out, providers[i]), providers, curr, i + 1)

\* visited left as it was.
MarkVisitedNot(seen, ref) == seen

\* visited after curr.to is recorded in it.
MarkVisited(seen, ref) == seen \cup {ref}

\* The error buildProviderMap returns when get fails for curr.
GetError(curr, e) ==
    IF curr.pos = NoPos THEN e
    ELSE [kind |-> e.kind, ref |-> e.ref, pos |-> curr.pos]

--------------------------------------------------------------------------
(* solve and inject: the checks before the search                           *)

\* The switch on the number of results in inject.
ResultsError(results) ==
    CASE Len(results) = 0 -> [kind |-> "no return values"]
      [] Len(results) = 1 -> NoErr
      [] Len(results) = 2 ->
            IF results[2] # errorType
            THEN [kind |-> "second return type must be error", typ |-> results[2]]
            ELSE NoErr
      [] OTHER -> [kind |-> "too many return values"]

\* Each entry compared with the entries before its neighbour only.
FirstDuplicateSkipsNeighbour(given) ==
    LET dups == {i \in 1..Len(given) : \E j \in 1..(i - 2) : given[j] = given[i]}
    IN IF dups = {} THEN 0 ELSE CHOOSE i \in dups : \A j \in dups : i <= j

\* The first position of given whose type occurs before it, 0 if none.
FirstDuplicate(given) ==
    LET dups == {i \in 1..Len(given) : \E j \in 1..(i - 1) : given[j] = given[i]}
    IN IF dups = {} THEN 0 ELSE CHOOSE i \in dups : \A j \in dups : i <= j

\* The loop over given started at its second entry.
FirstConflictAfterFirst(given, providers) ==
    LET bad == {i \in 2..Len(given) : given[i] \in DOMAIN providers}
    IN IF bad = {} THEN 0 ELSE CHOOSE i \in bad : \A j \in bad : i <= j

\* The first position of given whose type has a provider, 0 if none.
FirstConflict(given, providers) ==
    LET bad == {i \in 1..Len(given) : given[i] \in DOMAIN providers}
    IN IF bad = {} THEN 0 ELSE CHOOSE i \in bad : \A j \in bad : i <= j

\* index after the loop over given: the slot of given[i] is i - 1.
GivenIndex(given) ==
    [t \in Range(given) |-> (CHOOSE i \in 1..Len(given) :
                                given[i] = t /\ \A j \in (i + 1)..Len(given) : given[j] # t) - 1]

--------------------------------------------------------------------------
(* solve: the depth-first search.  A trail is a Go slice: a backing array  *)
(* of heap and a length; the array's length is the slice's capacity.       *)

Slice(arr, len) == [arr |-> arr, len |-> len]

At(h, trail, i) == h[trail.arr][i]

Cap(h, trail) == Len(h[trail.arr])

\* append(trail, a) that extends the slice over the room left in its array
\* without storing a.
appendReslice(h, trail, a) ==
    IF trail.len < Cap(h, trail)
    THEN [heap |-> h, slice |-> Slice(trail.arr, trail.len + 1)]
    ELSE LET old == h[trail.arr]
             grown == [i \in 1..(2 * Cap(h, trail)) |->
                          IF i <= trail.len THEN old[i]
                          ELSE IF i = trail.len + 1 THEN a ELSE "nil"]
         IN [heap |-> Append(h, grown), slice |-> Slice(Len(h) + 1, trail.len + 1)]

\* append(trail, a): written in place when the capacity allows, else copied
\* into a new array of twice the capacity.
append(h, trail, a) ==
    IF trail.len < Cap(h, trail)
    THEN [heap |-> [h EXCEPT ![trail.arr][trail.len + 1] = a],
          slice |-> Slice(trail.arr, trail.len + 1)]
    ELSE LET old == h[trail.arr]
             grown == [i \in 1..(2 * Cap(h, trail)) |->
                          IF i <= trail.len THEN old[i]
                          ELSE IF i = trail.len + 1 THEN a ELSE "nil"]
         IN [heap |-> Append(h, grown), slice |-> Slice(Len(h) + 1, trail.len + 1)]

NoProvider == Provider(NoRef, "", <<>>, FALSE)

\* An activation of visit: at its entry, or in the loop over p.args with
\* the next argument at i.
\* An activation that takes one more bound type for an input of its provider.
FrameMoreArgs(trail, stage, typ, pr, i) ==
    LET extra == {t \in DOMAIN pm : /\ t \notin Range(pr.args)
                                    /\ \A n \in 1..trail.len : At(heap, trail, n) # t}
        more == IF stage = "args" /\ extra # {}
                THEN <<CHOOSE t \in extra : TRUE>> ELSE <<>>
    IN [trail |-> trail, stage |-> stage, typ |-> typ,
        p |-> [pr EXCEPT !.args = @ \o more], i |-> i]

Frame(trail, stage, typ, pr, i) ==
    [trail |-> trail, stage |-> stage, typ |-> typ, p |-> pr, i |-> i]

EntryFrame(trail) == Frame(trail, "enter", "", NoProvider, 0)

Top == stack[Len(stack)]

Pop == SubSeq(stack, 1, Len(stack) - 1)

\* A test of the slot's value instead of its presence: slot 0 reads as unset.
ResolvedNonZero(idx, typ) == typ \in DOMAIN idx /\ idx[typ] # 0

\* index.At(typ) != nil: typ is a given or the output of a call made.
Resolved(idx, typ) == typ \in DOMAIN idx

\* The whole trail searched, the type itself included.
OnTrailWhole(h, trail, typ) == \E i \in 1..trail.len : At(h, trail, i) = typ

\* The trail searched without its first entry, the output type.
OnTrailAfterRoot(h, trail, typ) == \E i \in 2..(trail.len - 1) : At(h, trail, i) = typ

\* Whether typ is among trail[:len(trail)-1].
OnTrail(h, trail, typ) == \E i \in 1..(trail.len - 1) : At(h, trail, i) = typ

NoProviderError(h, trail, typ) ==
    IF trail.len = 1
    THEN [kind |-> "no provider found (output of injector)", typ |-> typ]
    ELSE [kind |-> "no provider found (required by provider)", typ |-> typ,
          by |-> At(h, trail, trail.len - 1)]

Call(pr, args, typ) ==
    [importPath |-> pr.importPath, funcName |-> pr.funcName, args |-> args,
     out |-> typ, hasErr |-> pr.hasErr]

\* The slots filled from the last input to the first.
CallArgsReversed(pr, idx) ==
    [j \in 1..Len(pr.args) |-> idx[pr.args[Len(pr.args) + 1 - j]]]

\* args of the call for pr: the slot of each of its inputs.
CallArgs(pr, idx) == [j \in 1..Len(pr.args) |-> idx[pr.args[j]]]

\* A slot numbering that counts the call being appended.
NextSlotCountsItself(given, cs) == Len(given) + Len(cs) + 1

\* The slot given to the call that is appended next.
NextSlot(given, cs) == Len(given) + Len(cs)

--------------------------------------------------------------------------
(* The generator.  The text written by g.p is kept as the sequence of the  *)
(* pieces written; an alias "pkg<n>" is <<"pkg", n>>, the empty name <<>>.  *)

newGen(pkg) == [currPackage |-> pkg, buf |-> <<>>, imports |-> <<>>, n |-> 0]

PkgName(n) == <<"pkg", n>>

\* Every call assigns a new alias: the table is not consulted.
qualifyImportAlwaysNew(gs, path) ==
    IF path = gs.currPackage THEN [g |-> gs, name |-> <<>>]
    ELSE [g |-> [gs EXCEPT !.n = @ + 1, !.imports = Put(@, path, PkgName(gs.n))],
          name |-> PkgName(gs.n)]

\* The current package given an alias like any other.
qualifyImportCurrentToo(gs, path) ==
    IF path \in DOMAIN gs.imports THEN [g |-> gs, name |-> gs.imports[path]]
    ELSE [g |-> [gs EXCEPT !.n = @ + 1, !.imports = Put(@, path, PkgName(gs.n))],
          name |-> PkgName(gs.n)]

qualifyImport(gs, path) ==
    IF path = gs.currPackage THEN [g |-> gs, name |-> <<>>]
    ELSE IF path \in DOMAIN gs.imports THEN [g |-> gs, name |-> gs.imports[path]]
    ELSE [g |-> [gs EXCEPT !.n = @ + 1, !.imports = Put(@, path, PkgName(gs.n))],
          name |-> PkgName(gs.n)]

\* types.TypeString(t, g.qualifyPkg) for the named type t.
TypeString(gs, t) ==
    LET q == qualifyImport(gs, TypePkg[t]) IN [g |-> q.g, text |-> <<q.name, t>>]

qualifiedID(gs, path, sym) ==
    LET q == qualifyImport(gs, path) IN [g |-> q.g, text |-> <<q.name, sym>>]

zeroValue(gs, t) ==
    CASE TypeKind[t] = "struct" ->
            LET s == TypeString(gs, t) IN [g |-> s.g, text |-> <<"composite", s.text>>]
      [] TypeKind[t] = "int" -> [g |-> gs, text |-> <<"0">>]
      [] OTHER -> [g |-> gs, text |-> <<"nil">>]

p(gs, piece) == [gs EXCEPT !.buf = Append(@, piece)]

\* Only the last call tested.
FirstFailingLast(cs, returnsErr) ==
    IF cs # <<>> /\ cs[Len(cs)].hasErr /\ ~returnsErr THEN Len(cs) ELSE 0

\* The first call that returns an error although the injector cannot, 0 if none.
FirstFailing(cs, returnsErr) ==
    LET bad == {i \in 1..Len(cs) : cs[i].hasErr /\ ~returnsErr}
    IN IF bad = {} THEN 0 ELSE CHOOSE i \in bad : \A j \in bad : i <= j

RECURSIVE EmitParams(_, _, _)
EmitParams(gs, given, i) ==
    IF i > Len(given) THEN gs
    ELSE LET s == TypeString(gs, given[i])
         IN EmitParams(p(s.g, <<"param", i - 1, s.text>>), given, i + 1)

\* The expression for slot a: a parameter or the local of an earlier call.
ArgExpr(a, nparams) == IF a < nparams THEN <<"param", a>> ELSE <<"v", a - nparams>>

RECURSIVE EmitCalls(_, _, _, _, _)
EmitCalls(gs, cs, nparams, zv, i) ==
    IF i > Len(cs) THEN gs
    ELSE LET c == cs[i]
             id == qualifiedID(gs, c.importPath, c.funcName)
             line == p(id.g, <<"call", i - 1, c.hasErr, id.text,
                               [j \in 1..Len(c.args) |-> ArgExpr(c.args[j], nparams)]>>)
             checked == IF c.hasErr THEN p(line, <<"if err", zv>>) ELSE line
         IN EmitCalls(checked, cs, nparams, zv, i + 1)

\* The local of the first call returned.
EmitReturnFirstLocal(gs, cs, given, outType) ==
    IF Len(cs) = 0
    THEN LET same == {i \in 1..Len(given) : given[i] = outType}
         IN IF same = {} THEN gs
            ELSE p(gs, <<"return", <<"param", (CHOOSE i \in same : \A j \in same : i <= j) - 1>>>>)
    ELSE p(gs, <<"return", <<"v", 0>>>>)

\* The first parameter returned when there is no call.
EmitReturnFirstParam(gs, cs, given, outType) ==
    IF Len(cs) = 0
    THEN IF given = <<>> THEN gs ELSE p(gs, <<"return", <<"param", 0>>>>)
    ELSE p(gs, <<"return", <<"v", Len(cs) - 1>>>>)

\* The final return statement.
EmitReturn(gs, cs, given, outType) ==
    IF Len(cs) = 0
    THEN LET same == {i \in 1..Len(given) : given[i] = outType}
         IN IF same = {} THEN gs
            ELSE p(gs, <<"return", <<"param", (CHOOSE i \in same : \A j \in same : i <= j) - 1>>>>)
    ELSE p(gs, <<"return", <<"v", Len(cs) - 1>>>>)

\* inject from the first g.p on: the generator after the injector is written.
EmitInjector(gs, name, d, cs) ==
    LET g1 == EmitParams(p(gs, <<"func", name>>), d.given, 1)
        res == TypeString(g1, d.outType)
        g2 == p(res.g, <<"results", res.text, d.returnsErr>>)
        zv == zeroValue(g2, d.outType)
        g3 == EmitCalls(zv.g, cs, Len(d.given), zv.text, 1)
        g4 == EmitReturn(g3, cs, d.given, d.outType)
        g5 == IF d.returnsErr THEN p(g4, <<", nil">>) ELSE g4
    IN p(g5, <<"}">>)

SignatureKind == "provider returns error but injection not allowed to fail"

SignatureError(c) == [kind |-> SignatureKind, typ |-> c.out]

\* The parameter list written before the calls are checked.
injectCallsHeaderFirst(gs, name, d, cs) ==
    LET bad == FirstFailing(cs, d.returnsErr)
    IN IF bad # 0
       THEN [g |-> EmitParams(p(gs, <<"func", name>>), d.given, 1),
             err |-> SignatureError(cs[bad])]
       ELSE [g |-> EmitInjector(gs, name, d, cs), err |-> NoErr]

\* inject after solve has returned cs: the check of the calls against the
\* signature, then the text; the generator and the error it returns.
injectCalls(gs, name, d, cs) ==
    LET bad == FirstFailing(cs, d.returnsErr)
    IN IF bad # 0
       THEN [g |-> gs, err |-> SignatureError(cs[bad])]
       ELSE [g |-> EmitInjector(gs, name, d, cs), err |-> NoErr]

\* frame: the source file around the buffer.
frame(gs, pkgName) ==
    IF gs.buf = <<>> THEN <<>>
    ELSE LET imps == SelectSeq(PkgOrder, LAMBDA path : path \in DOMAIN gs.imports)
         IN <<<<"package", pkgName>>>>
            \o [i \in 1..Len(imps) |-> <<"import", gs.imports[imps[i]], imps[i]>>]
            \o gs.buf

--------------------------------------------------------------------------
(* The actions.                                                             *)

\* A finished call of solve: its arguments, the bindings it merged and the
\* calls it returned.
Solved(d, bindings, cs) == [inj |-> d, pm |-> bindings, calls |-> cs]

NoInj == [returnsErr |-> FALSE, outType |-> "", given |-> <<>>, sets |-> <<>>]

\* An error returned by inject: Generate returns it and nothing else.
Fail(e) ==
    /\ ret' = "err"
    /\ err' = e
    /\ pc' = "exit"

\* Generate calls g.inject for the next injector; inject checks the results,
\* lists the given types and calls solve, which rejects duplicates and
\* calls buildProviderMap, which queues the roots.
Inject ==
    /\ pc = "gen"
    /\ k <= Len(prog.injectors)
    /\ LET d == prog.injectors[k]
           e == ResultsError(d.results)
           dup == FirstDuplicate(d.given)
       IN /\ gEntry' = g
          /\ done' = IF ret = "ok" THEN Append(done, Solved(inj, pm, calls)) ELSE done
          /\ gets' = <<>>
          /\ ndequeue' = 0
          /\ nvisit' = 0
          /\ index' = <<>>
          /\ calls' = <<>>
          /\ stack' = <<>>
          /\ heap' = <<>>
          /\ visited' = {}
          /\ pm' = <<>>
          /\ IF e # NoErr
             THEN Fail(e) /\ UNCHANGED <<inj, next>>
             ELSE /\ inj' = [returnsErr |-> Len(d.results) = 2, outType |-> d.results[1],
                             given |-> d.given, sets |-> d.sets]
                  /\ IF dup # 0
                     THEN /\ Fail([kind |-> "multiple inputs of the same type",
                                   typ |-> d.given[dup]])
                          /\ UNCHANGED next
                     ELSE /\ next' = RootEntries(d.sets)
                          /\ pc' = "bpm"
                          /\ ret' = "none"
                          /\ UNCHANGED err
    /\ UNCHANGED <<asked, got, prog, mc, g, k, out>>

\* buildProviderMap dequeues a reference it has seen.
BPMSkip ==
    /\ pc = "bpm"
    /\ next # <<>>
    /\ Head(next).to \in visited
    /\ next' = Tail(next)
    /\ ndequeue' = ndequeue + 1
    /\ UNCHANGED <<asked, done, got, prog, mc, g, pc, k, inj, visited, pm, index, calls, stack, heap,
                   ret, err, gets, gEntry, nvisit, out>>

\* buildProviderMap dequeues a new reference, fetches the set, binds its
\* providers and queues its imports.
BPMVisit ==
    /\ pc = "bpm"
    /\ next # <<>>
    /\ Head(next).to \notin visited
    /\ LET curr == Head(next)
           r == get(mc, curr.to)
           b == BindProviders(pm, r.mod.providers, curr, 1)
       IN /\ visited' = MarkVisited(visited, curr.to)
          /\ gets' = Append(gets, curr.to)
          /\ got' = Append(got, Outcome(curr.to, r))
          /\ mc' = r.mc
          /\ IF ~r.ok
             THEN Fail(GetError(curr, r.err)) /\ next' = Tail(next) /\ UNCHANGED pm
             ELSE /\ pm' = b.pm
                  /\ IF b.err # NoErr
                     THEN Fail(b.err) /\ next' = Tail(next)
                     ELSE /\ next' = Tail(next) \o ImportEntries(r.mod, curr)
                          /\ UNCHANGED <<pc, ret, err>>
    /\ ndequeue' = ndequeue + 1
    /\ UNCHANGED <<asked, done, prog, g, k, inj, index, calls, stack, heap, gEntry, nvisit, out>>

\* buildProviderMap returns the bindings; solve checks the given types
\* against them, fills index and calls visit on the output type.
SolveIndex ==
    /\ pc = "bpm"
    /\ next = <<>>
    /\ LET bad == FirstConflict(inj.given, pm)
       IN IF bad # 0
          THEN /\ Fail([kind |-> "input conflicts with provider",
                        typ |-> inj.given[bad], provider |-> pm[inj.given[bad]]])
               /\ UNCHANGED <<index, stack, heap, nvisit>>
          ELSE /\ index' = GivenIndex(inj.given)
               /\ nvisit' = 1
               /\ heap' = <<<<inj.outType>>>>
               /\ stack' = <<EntryFrame(Slice(1, 1))>>
               /\ pc' = "visit"
               /\ UNCHANGED <<ret, err>>
    /\ UNCHANGED <<asked, done, got, prog, mc, g, k, inj, next, visited, pm, calls, gets, gEntry,
                   ndequeue, out>>

\* visit returns nil to its caller; the outermost returns to solve.
Return ==
    /\ stack' = Pop
    /\ pc' = IF Len(stack) = 1 THEN "emit" ELSE pc
    /\ UNCHANGED <<ret, err>>

\* visit from its entry to the lookup of the provider.
VisitEnter ==
    /\ pc = "visit"
    /\ Top.stage = "enter"
    /\ LET trail == Top.trail
           typ == At(heap, trail, trail.len)
       IN IF Resolved(index, typ)
          THEN Return
          ELSE IF OnTrail(heap, trail, typ)
          THEN Fail([kind |-> "cycle", typ |-> typ]) /\ UNCHANGED stack
          ELSE IF typ \notin DOMAIN pm
          THEN Fail(NoProviderError(heap, trail, typ)) /\ UNCHANGED stack
          ELSE /\ stack' = [stack EXCEPT ![Len(stack)] = Frame(trail, "args", typ, pm[typ], 1)]
               /\ UNCHANGED <<pc, ret, err>>
    /\ UNCHANGED <<asked, done, got, prog, mc, g, k, inj, next, visited, pm, index, calls, heap,
                   gets, gEntry, ndequeue, nvisit, out>>

\* visit calls itself on the next argument of the provider.
VisitCall ==
    /\ pc = "visit"
    /\ Top.stage = "args"
    /\ Top.i <= Len(Top.p.args)
    /\ LET r == append(heap, Top.trail, Top.p.args[Top.i])
       IN /\ heap' = r.heap
          /\ stack' = Append([stack EXCEPT ![Len(stack)].i = @ + 1], EntryFrame(r.slice))
    /\ nvisit' = nvisit + 1
    /\ UNCHANGED <<asked, done, got, prog, mc, g, pc, k, inj, next, visited, pm, index, calls,
                   ret, err, gets, gEntry, ndequeue, out>>

\* visit, all arguments resolved, appends the call for its type.
VisitReturn ==
    /\ pc = "visit"
    /\ Top.stage = "args"
    /\ Top.i > Len(Top.p.args)
    /\ IF \E j \in 1..Len(Top.p.args) : Top.p.args[j] \notin DOMAIN index
       THEN /\ ret' = "panic"
            /\ pc' = "exit"
            /\ UNCHANGED <<index, calls, stack, err>>
       ELSE /\ index' = Put(index, Top.typ, NextSlot(inj.given, calls))
            /\ calls' = Append(calls, Call(Top.p, CallArgs(Top.p, index), Top.typ))
            /\ Return
    /\ UNCHANGED <<asked, done, got, prog, mc, g, k, inj, next, visited, pm, heap, gets, gEntry,
                   ndequeue, nvisit, out>>

\* solve returns the calls; inject checks them against the signature and
\* writes the injector.
InjectEmit ==
    /\ pc = "emit"
    /\ LET r == injectCalls(g, <<"inject", k>>, inj, calls)
       IN /\ g' = r.g
          /\ IF r.err # NoErr
             THEN Fail(r.err) /\ UNCHANGED k
             ELSE /\ ret' = "ok"
                  /\ pc' = "gen"
                  /\ k' = k + 1
                  /\ UNCHANGED err
    /\ UNCHANGED <<asked, done, got, prog, mc, inj, next, visited, pm, index, calls, stack, heap,
                   gets, gEntry, ndequeue, nvisit, out>>

\* Generate, past its last injector, frames the buffer and returns.
GenerateFrame ==
    /\ pc = "gen"
    /\ k > Len(prog.injectors)
    /\ out' = frame(g, "main")
    /\ pc' = "exit"
    /\ UNCHANGED <<asked, done, got, prog, mc, g, k, inj, next, visited, pm, index, calls, stack, heap,
                   ret, err, gets, gEntry, ndequeue, nvisit>>

\* The state Generate starts from on program pr.
Start(pr) ==
    /\ prog = pr
    /\ mc = <<>>
    /\ g = newGen(CurrPackage)
    /\ pc = "gen"
    /\ k = 1
    /\ inj = NoInj
    /\ next = <<>>
    /\ visited = {}
    /\ pm = <<>>
    /\ index = <<>>
    /\ calls = <<>>
    /\ stack = <<>>
    /\ heap = <<>>
    /\ ret = "none"
    /\ err = NoErr
    /\ gets = <<>>
    /\ got = <<>>
    /\ done = <<>>
    /\ asked = <<>>
    /\ gEntry = newGen(CurrPackage)
    /\ ndequeue = 0
    /\ nvisit = 0
    /\ out = <<>>

--------------------------------------------------------------------------
(* The programs Generate is run on.  A program is what loader.Config.Load  *)
(* and findProviderSets hand over: for every package whether it was found  *)
(* and analysed, its provider sets, and the injectors of the package.      *)

RECURSIVE SumOver(_, _)
SumOver(f, S) ==
    IF S = {} THEN 0
    ELSE LET x == CHOOSE y \in S : TRUE IN Len(f[x]) + SumOver(f, S \ {x})

ArgSeqs == UNION {DistinctSeqs(Types, n) : n \in 0..MaxArgs}

\* The provider argument lists of a catalog binding the types of bound,
\* with at most e parameters in all.
Signatures(bound, e) == {f \in [bound -> ArgSeqs] : SumOver(f, bound) <= e}

\* The providers of bound as one provider set, in declaration order.
ProvidersOf(ref, bound, f, fallible) ==
    LET ts == SelectSeq(TypeOrder, LAMBDA t : t \in bound)
    IN [i \in 1..Len(ts) |-> Provider(ref, ts[i], f[ts[i]], ts[i] \in fallible)]

\* One provider set "M" in the current package holds the whole catalog.
CatalogProgram(bound, f, fallible, results, given) ==
    [pkgs |-> [path \in SetPkgs |->
                 IF path = CurrPackage /\ bound # {}
                 THEN Package("ok", [n \in {"M"} |->
                        ProviderSet(ProvidersOf(Ref(path, "M"), bound, f, fallible), <<>>)])
                 ELSE Package(IF path = CurrPackage THEN "ok" ELSE "missing", <<>>)],
     injectors |-> <<Injector(results, given, <<Ref(CurrPackage, "M")>>)>>]

Catalogs(e) ==
    UNION {{[bound |-> b, f |-> f] : f \in Signatures(b, e)} : b \in SUBSET Types}

\* Dependency graphs: every catalog within the bounds, every parameter list
\* and wanted type; no provider fails and the injector returns one value.
InitSolve ==
    \E c \in Catalogs(MaxEdges), want \in Types, given \in SeqsUpTo(Types, MaxGiven) :
        Start(CatalogProgram(c.bound, c.f, {}, <<want>>, given))

\* Signatures: the result lists inject accepts and rejects, over catalogs of
\* at most one parameter in which any provider may return an error.
ResultLists(want) ==
    {<<>>, <<want>>, <<want, errorType>>, <<want, "A">>, <<want, "A", errorType>>}

InitSignature ==
    \E c \in Catalogs(1) :
        \E fallible \in (SUBSET c.bound) \ {{}}, want \in Types, given \in SeqsUpTo(Types, 1) :
            \E results \in ResultLists(want) :
                Start(CatalogProgram(c.bound, c.f, fallible, results, given))

\* Import graphs: the provider sets are any of Refs, each with at most one
\* provider without parameters and its imports; package "ext" may be missing
\* or fail analysis; the injector wants "A" from any list of roots.
MergeTypes == {"A", "B"}

MergeSets(ref) ==
    {ProviderSet([i \in 1..Len(ts) |-> Provider(ref, ts[i], <<>>, FALSE)], imps) :
        ts \in SeqsUpTo(MergeTypes, 1),
        imps \in UNION {DistinctSeqs(Refs, n) : n \in 0..MaxImports}}

\* A provider set without providers and imports is one that is not declared.
Declared(set) == set.providers # <<>> \/ set.imports # <<>>

MergeProgram(w, extStatus, roots) ==
    [pkgs |-> [path \in SetPkgs |->
                 IF path = CurrPackage \/ extStatus = "ok"
                 THEN Package("ok", [n \in {r.name : r \in {x \in Refs :
                                        x.importPath = path /\ Declared(w[x])}} |->
                                        w[Ref(path, n)]])
                 ELSE Package(extStatus, <<>>)],
     injectors |-> <<Injector(<<"A">>, <<>>, roots)>>]

InitMerge ==
    \E w1 \in MergeSets(Ref("cur", "M")), w2 \in MergeSets(Ref("ext", "M")),
       w3 \in MergeSets(Ref("ext", "N")) :
        /\ Len(w1.imports) + Len(w2.imports) + Len(w3.imports) <= MaxImports
        /\ \E extStatus \in {"ok", "missing", "bad"}, roots \in SeqsUpTo(Refs, MaxRoots) :
              /\ Len(roots) + Len(w1.imports) + Len(w2.imports) + Len(w3.imports) <= MaxQueue
              /\ Start(MergeProgram((Ref("cur", "M") :> w1) @@ (Ref("ext", "M") :> w2)
                                    @@ (Ref("ext", "N") :> w3), extStatus, roots))

\* Several injectors in one package: two injector functions over one
\* catalog of at most one parameter, each with its own output type and at
\* most one parameter of its own.
MultiProgram(bound, f, d1, d2) ==
    [CatalogProgram(bound, f, {}, d1.results, d1.given) EXCEPT
        !.injectors = <<Injector(d1.results, d1.given, <<Ref(CurrPackage, "M")>>),
                        Injector(d2.results, d2.given, <<Ref(CurrPackage, "M")>>)>>]

InitMulti ==
    \E c \in Catalogs(1), w1, w2 \in Types, g1, g2 \in SeqsUpTo(Types, 1) :
        Start(MultiProgram(c.bound, c.f, [results |-> <<w1>>, given |-> g1],
                                         [results |-> <<w2>>, given |-> g2]))

\* A parameter type listed twice, over roots whose sets "cur.M" and "ext.M"
\* both provide "A", with package "ext" found, missing or failing.
DuplicateProgram(extStatus, roots, t) ==
    LET set(ref) == ProviderSet(<<Provider(ref, "A", <<>>, FALSE)>>, <<>>)
        w == (Ref("cur", "M") :> set(Ref("cur", "M")))
                @@ (Ref("ext", "M") :> set(Ref("ext", "M")))
                @@ (Ref("ext", "N") :> NilSet)
    IN [MergeProgram(w, extStatus, roots) EXCEPT
           !.injectors = <<Injector(<<"A">>, <<t, t>>, roots)>>]

InitDuplicate ==
    \E extStatus \in {"ok", "missing", "bad"}, roots \in SeqsUpTo(Refs, MaxRoots),
       t \in Types :
        Start(DuplicateProgram(extStatus, roots, t))

\* Deep chains: A needs B, B needs C, and C needs any of A, D and E; D and E
\* are each bound without inputs, given, or neither.  The trail of the
\* visits below C is appended to a slice that has room left.
DeepProgram(cargs, bound, given) ==
    LET r == Ref(CurrPackage, "M")
        f == [t \in Types \cup bound |->
                CASE t = "A" -> <<"B">> [] t = "B" -> <<"C">> [] t = "C" -> cargs
                  [] OTHER -> <<>>]
        ts == SelectSeq(DeepOrder, LAMBDA t : t \in DOMAIN f)
    IN [pkgs |-> [path \in SetPkgs |->
                    IF path = CurrPackage
                    THEN Package("ok", [n \in {"M"} |->
                           ProviderSet([i \in 1..Len(ts) |->
                                           Provider(r, ts[i], f[ts[i]], FALSE)], <<>>)])
                    ELSE Package("missing", <<>>)],
        injectors |-> <<Injector(<<"A">>, given, <<r>>)>>]

InitDeep ==
    \E cargs \in UNION {DistinctSeqs({"A"} \cup DeepTypes, n) : n \in 0..MaxArgs},
       bound \in SUBSET DeepTypes :
        \E given \in UNION {DistinctSeqs(DeepTypes \ bound, n) : n \in 0..MaxGiven} :
            Start(DeepProgram(cargs, bound, given))

Init == InitSolve \/ InitSignature \/ InitMerge \/ InitMulti \/ InitDuplicate \/ InitDeep

Next ==
    \/ Inject
    \/ BPMSkip
    \/ BPMVisit
    \/ SolveIndex
    \/ VisitEnter
    \/ VisitCall
    \/ VisitReturn
    \/ InjectEmit
    \/ GenerateFrame

Spec == Init /\ [][Next]_vars

--------------------------------------------------------------------------
(* The generator on its own: a client calls qualifyImport on one           *)
(* generator for any package paths in any order.                           *)

Paths == {"cur", "ext", "lib", "std"}

\* newGen for the package of a program without provider sets.
InitQualify == Start(CatalogProgram({}, <<>>, {}, <<"A">>, <<>>))

\* g.qualifyImport(path)
Qualify(path) ==
    /\ Len(asked) < MaxAsked
    /\ LET q == qualifyImport(g, path)
       IN /\ g' = q.g
          /\ asked' = Append(asked, [path |-> path, name |-> q.name])
    /\ UNCHANGED <<done, got, prog, mc, pc, k, inj, next, visited, pm, index, calls,
                   stack, heap, ret, err, gets, gEntry, ndequeue, nvisit, out>>

NextQualify == \E path \in Paths : Qualify(path)

QualifySpec == InitQualify /\ [][NextQualify]_vars

--------------------------------------------------------------------------
(* providerSetCache on its own: a client calls get on one cache for any     *)
(* references in any order.                                                 *)

\* A program of provider sets without imports, each with at most one
\* provider; package "ext" may be missing or fail analysis.
InitCache ==
    \E t1, t2, t3 \in SeqsUpTo(MergeTypes, 1), extStatus \in {"ok", "missing", "bad"} :
        LET set(ref, ts) ==
                ProviderSet([i \in 1..Len(ts) |-> Provider(ref, ts[i], <<>>, FALSE)], <<>>)
        IN Start(MergeProgram((Ref("cur", "M") :> set(Ref("cur", "M"), t1))
                                 @@ (Ref("ext", "M") :> set(Ref("ext", "M"), t2))
                                 @@ (Ref("ext", "N") :> set(Ref("ext", "N"), t3)),
                              extStatus, <<>>))

\* mc.get(ref)
Get(ref) ==
    /\ Len(got) < MaxGets
    /\ LET r == get(mc, ref)
       IN /\ mc' = r.mc
          /\ got' = Append(got, Outcome(ref, r))
    /\ UNCHANGED <<asked, done, prog, g, pc, k, inj, next, visited, pm, index, calls, stack, heap,
                   ret, err, gets, gEntry, ndequeue, nvisit, out>>

NextCache == \E ref \in Refs : Get(ref)

CacheSpec == InitCache /\ [][NextCache]_vars


--------------------------------------------------------------------------
(* What the properties speak of.                                            *)

\* solve has returned its calls to inject.
SolveReturned == pc = "emit"

\* inject has returned nil for the injector.
InjectReturned == ret = "ok"

EarlyErrors ==
    {"no return values", "second return type must be error", "too many return values",
     "multiple inputs of the same type"}

MergeErrors ==
    {"multiple bindings", "no such provider set", "analyze package", "find provider sets"}

\* buildProviderMap has returned the bindings pm to solve.
MergeSucceeded ==
    \/ pc = "bpm" /\ next = <<>>
    \/ pc \in {"visit", "emit"}
    \/ ret = "ok"
    \/ ret = "panic"
    \/ ret = "err" /\ err.kind \notin EarlyErrors \cup MergeErrors

NoDuplicates(seq) == \A i, j \in 1..Len(seq) : i # j => seq[i] # seq[j]

\* The inputs of the provider bound to t, none if t is given or unbound.
Deps(cat, given, t) ==
    IF t \in Range(given) \/ t \notin DOMAIN cat THEN {} ELSE Range(cat[t].args)

\* The types reachable from those of S through provider inputs.
RECURSIVE Closure(_, _, _)
Closure(cat, given, S) ==
    LET more == S \cup UNION {Deps(cat, given, t) : t \in S}
    IN IF more = S THEN S ELSE Closure(cat, given, more)

Reachable(cat, given, want) == Closure(cat, given, {want})

\* t depends on itself.
OnCycle(cat, given, t) == t \in Closure(cat, given, Deps(cat, given, t))

\* The types a plan for want needs a provider for.
NeededProviders(cat, given, want) ==
    {t \in Reachable(cat, given, want) : t \notin Range(given) /\ t \in DOMAIN cat}

RECURSIVE Parameters(_, _)
Parameters(cat, S) ==
    IF S = {} THEN 0
    ELSE LET t == CHOOSE x \in S : TRUE IN Len(cat[t].args) + Parameters(cat, S \ {t})

\* The preconditions under which solve must succeed.
Solvable(cat, given, want) ==
    /\ NoDuplicates(given)
    /\ \A i \in 1..Len(given) : given[i] \notin DOMAIN cat
    /\ \A t \in Reachable(cat, given, want) : t \in Range(given) \/ t \in DOMAIN cat
    /\ \A t \in Reachable(cat, given, want) : ~OnCycle(cat, given, t)

--------------------------------------------------------------------------
(* The properties.                                                          *)

\* C1: in the calls solve returns, every argument of the call at position i
\* (0-based) is a slot a with 0 <= a < len(given) + i: a given or the result
\* of a strictly earlier call.
C1_NoForwardReference ==
    SolveReturned =>
        \A i \in 1..Len(calls) : \A j \in 1..Len(calls[i].args) :
            /\ 0 <= calls[i].args[j]
            /\ calls[i].args[j] < Len(inj.given) + (i - 1)

\* solve has returned a plan in which one call takes a given and the result
\* of the call right before it.
C1_Witness ==
    /\ SolveReturned
    /\ \E i \in 2..Len(calls) :
          /\ \E j \in 1..Len(calls[i].args) : calls[i].args[j] = Len(inj.given) + (i - 2)
          /\ \E j \in 1..Len(calls[i].args) : calls[i].args[j] < Len(inj.given)

\* C2: if given has no duplicate, no given type is bound in the merged
\* catalog, every type reachable from want is given or bound and no
\* reachable type depends on itself, then solve returns no error (the only
\* error inject can still return is its own signature error), and the
\* search ends: while it runs a step of visit can be taken, and visit is
\* called at most once for the output type and once for every parameter of
\* a provider that is needed.
C2_SolvableTerminates ==
    (MergeSucceeded /\ Solvable(pm, inj.given, inj.outType)) =>
        /\ ret # "panic"
        /\ ret = "err" => err.kind = SignatureKind
        /\ pc = "visit" => ENABLED (VisitEnter \/ VisitCall \/ VisitReturn)
        /\ nvisit <= 1 + Parameters(pm, NeededProviders(pm, inj.given, inj.outType))

\* solve has returned three calls for a solvable request.
C2_Witness ==
    /\ SolveReturned
    /\ Solvable(pm, inj.given, inj.outType)
    /\ Len(calls) = 3

\* C3: no two calls that solve returns have the same output type.
C3_OneCallPerType ==
    SolveReturned =>
        \A i, j \in 1..Len(calls) : i # j => calls[i].out # calls[j].out

\* solve has returned a plan in which the result of one call is an argument
\* of two later calls.
C3_Witness ==
    /\ SolveReturned
    /\ \E i, j1, j2 \in 1..Len(calls) :
          /\ j1 # j2
          /\ Len(inj.given) + (i - 1) \in Range(calls[j1].args)
          /\ Len(inj.given) + (i - 1) \in Range(calls[j2].args)

\* The type visit is entered with: the argument its caller passed, the
\* output type for the outermost visit.
Entered ==
    IF Len(stack) = 1 THEN inj.outType
    ELSE stack[Len(stack) - 1].p.args[stack[Len(stack) - 1].i - 1]

\* The types whose visit is under way around the visit just entered.
UnderWay == {stack[i].typ : i \in 1..(Len(stack) - 1)}

AtEntry == pc = "visit" /\ stack # <<>> /\ Top.stage = "enter"

\* A's provider takes B and B's provider takes A, neither is given, the
\* checks before the search pass and A or B is wanted.
TwoCycle ==
    /\ MergeSucceeded
    /\ {"A", "B"} \subseteq DOMAIN pm
    /\ pm["A"].args = <<"B">>
    /\ pm["B"].args = <<"A">>
    /\ NoDuplicates(inj.given)
    /\ \A i \in 1..Len(inj.given) : inj.given[i] \notin DOMAIN pm
    /\ inj.outType \in {"A", "B"}

\* C4: when visit is entered with a type whose visit is under way, solve
\* returns the cycle error for that type; with A's provider requiring B and
\* B's requiring A, neither given, solve ends with the cycle error.
C4_CycleStep ==
    (AtEntry /\ Entered \in UnderWay) =>
        /\ ret' = "err"
        /\ err' = [kind |-> "cycle", typ |-> Entered]
        /\ pc' = "exit"

C4_TwoCycleFails ==
    TwoCycle =>
        /\ ~SolveReturned
        /\ ret # "ok"
        /\ pc = "exit" => ret = "err" /\ err.kind = "cycle"

C4_CycleError == [][C4_CycleStep]_vars /\ []C4_TwoCycleFails

\* solve has failed with the cycle error on the two-provider cycle.
C4_Witness ==
    /\ TwoCycle
    /\ ret = "err"
    /\ err = [kind |-> "cycle", typ |-> inj.outType]

\* Whether the program holds the provider set ref names.
Loadable(ref) ==
    /\ ref.importPath \in SetPkgs
    /\ prog.pkgs[ref.importPath].status = "ok"
    /\ ref.name \in DOMAIN prog.pkgs[ref.importPath].sets

SetOf(ref) == prog.pkgs[ref.importPath].sets[ref.name]

ImportsOf(ref) == IF Loadable(ref) THEN Range(SetOf(ref).imports) ELSE {}

RECURSIVE ImportClosure(_)
ImportClosure(S) ==
    LET more == S \cup UNION {ImportsOf(r) : r \in S}
    IN IF more = S THEN S ELSE ImportClosure(more)

\* The references reachable from the roots of the running injector.
ReachableRefs == ImportClosure(Range(inj.sets))

\* Two different reachable, loadable sets hold a provider for one type.
Conflicting ==
    \E r1, r2 \in ReachableRefs :
        /\ r1 # r2
        /\ Loadable(r1)
        /\ Loadable(r2)
        /\ \E i \in 1..Len(SetOf(r1).providers), j \in 1..Len(SetOf(r2).providers) :
              SetOf(r1).providers[i].out = SetOf(r2).providers[j].out

\* buildProviderMap has been called and has returned an error.
MergeFailed == ret = "err" /\ err.kind \notin EarlyErrors

\* C5 as stated: when two different reachable, loadable provider sets hold a
\* provider for the same type, buildProviderMap fails with the
\* multiple-bindings error.
C5_AlwaysMultipleBindings ==
    Conflicting =>
        /\ ~MergeSucceeded
        /\ (pc = "exit" /\ err.kind \notin EarlyErrors) =>
              ret = "err" /\ err.kind = "multiple bindings"

\* C5 amended: in that case buildProviderMap returns an error and no
\* bindings; the error is the multiple-bindings error when every reachable
\* reference can be loaded, and otherwise that or the error of loading a
\* reachable reference that cannot be loaded.
C5_ConflictFails ==
    Conflicting =>
        /\ ~MergeSucceeded
        /\ (pc = "exit" /\ err.kind \notin EarlyErrors) =>
              /\ ret = "err"
              /\ err.kind \in MergeErrors
              /\ err.kind # "multiple bindings" =>
                    err.ref \in ReachableRefs /\ ~Loadable(err.ref)
              /\ err.kind = "multiple bindings" =>
                    /\ err.prev.out = err.typ
                    /\ err.provider.out = err.typ
                    /\ err.prev # err.provider

\* buildProviderMap has failed on a provider of the current package's set,
\* reached through an import, whose type a set of package "ext" had bound.
C5_Witness ==
    /\ Conflicting
    /\ MergeFailed
    /\ err.kind = "multiple bindings"
    /\ err.provider.importPath = "cur"
    /\ err.prev.importPath = "ext"
    /\ err.from # NoRef

\* C6: when the merge has succeeded and a given type is bound in the
\* catalog, solve neither searches nor returns calls: it fails with the
\* input-conflicts-with-provider error for a given type and its provider.
C6_GivenShadowsProvider ==
    (MergeSucceeded /\ \E i \in 1..Len(inj.given) : inj.given[i] \in DOMAIN pm) =>
        /\ pc \notin {"visit", "emit"}
        /\ ret \notin {"ok", "panic"}
        /\ pc = "exit" =>
              /\ ret = "err"
              /\ err.kind = "input conflicts with provider"
              /\ err.typ \in Range(inj.given)
              /\ err.typ \in DOMAIN pm
              /\ err.provider = pm[err.typ]

\* solve has failed so although the output type is itself a given and the
\* given that has a provider is another one, which no plan would need.
C6_Witness ==
    /\ ret = "err"
    /\ err.kind = "input conflicts with provider"
    /\ inj.outType \in Range(inj.given)
    /\ err.typ # inj.outType

\* What inject has written for the running injector.
Written == SubSeq(g.buf, Len(gEntry.buf) + 1, Len(g.buf))

Returns(buf) == {buf[i] : i \in {j \in 1..Len(buf) : buf[j][1] = "return"}}

\* C7: when want is a given and the checks pass, solve returns no call and
\* looks up no provider; solve returns no call only when want is a given;
\* the injector then returns the parameter of that given.
C7_WantIsGiven ==
    /\ SolveReturned => (calls = <<>> <=> inj.outType \in Range(inj.given))
    /\ (/\ MergeSucceeded
        /\ inj.outType \in Range(inj.given)
        /\ NoDuplicates(inj.given)
        /\ \A i \in 1..Len(inj.given) : inj.given[i] \notin DOMAIN pm) =>
          /\ ret \notin {"err", "panic"}
          /\ nvisit <= 1
          /\ \A i \in 1..Len(stack) : stack[i].stage = "enter"
          /\ calls = <<>>
    /\ (InjectReturned /\ calls = <<>>) =>
          \E i \in 1..Len(inj.given) :
              /\ inj.given[i] = inj.outType
              /\ Returns(Written) = {<<"return", <<"param", i - 1>>>>}

\* inject has written an injector that returns its second parameter.
C7_Witness ==
    /\ InjectReturned
    /\ calls = <<>>
    /\ Len(inj.given) = 2
    /\ inj.given[2] = inj.outType

\* C8: inject returns the signature error exactly from the point where
\* solve has returned its calls, the injector has no error result and a
\* call has hasErr set; the error names the output type of the first such
\* call.
C8_Step ==
    /\ pc = "emit" =>
          /\ (ret' = "err" /\ err'.kind = SignatureKind)
                <=> (~inj.returnsErr /\ \E i \in 1..Len(calls) : calls[i].hasErr)
          /\ ret' = "err" =>
                \E i \in 1..Len(calls) :
                    /\ calls[i].hasErr
                    /\ \A j \in 1..(i - 1) : ~calls[j].hasErr
                    /\ err'.typ = calls[i].out
    /\ pc # "emit" => ~(ret' = "err" /\ err'.kind = SignatureKind)

C8_SignatureError == [][C8_Step]_vars

\* inject has returned the signature error for the second of two calls.
C8_Witness ==
    /\ ret = "err"
    /\ err.kind = SignatureKind
    /\ Len(calls) = 2
    /\ ~calls[1].hasErr
    /\ err.typ = calls[2].out

\* C9: when inject has returned an error the generator is as it was when
\* inject was called: buffer, alias table and alias counter.
C9_ErrorLeavesGenerator == ret = "err" => g = gEntry

\* inject has returned its last possible error, the signature error, for an
\* injector whose text would have needed an alias.
C9_Witness ==
    /\ ret = "err"
    /\ err.kind = SignatureKind
    /\ TypePkg[inj.outType] # CurrPackage

\* The import directives of all the provider sets of the program.
RECURSIVE ImportCount(_)
ImportCount(S) ==
    IF S = {} THEN 0
    ELSE LET r == CHOOSE x \in S : TRUE
         IN (IF Loadable(r) THEN Len(SetOf(r).imports) ELSE 0) + ImportCount(S \ {r})

C10_State ==
    /\ NoDuplicates(gets)
    /\ ndequeue <= Len(inj.sets) + ImportCount(Refs)
    /\ pc = "bpm" => ENABLED (BPMSkip \/ BPMVisit \/ SolveIndex)

C10_Step ==
    (pc = "bpm" /\ next # <<>> /\ Head(next).to \in Range(gets)) =>
        /\ next' = Tail(next)
        /\ UNCHANGED <<mc, pm, visited, gets, pc, ret, err>>

\* C10: buildProviderMap passes no reference to get twice, dequeues at most
\* one entry per root and per import directive of the program and can take a
\* step until it returns; dequeuing a reference already fetched only
\* shortens the queue.
C10_FetchedOnce == []C10_State /\ [][C10_Step]_vars

\* buildProviderMap is about to dequeue a reference it has fetched, queued
\* by the import of another set.
C10_Witness ==
    /\ pc = "bpm"
    /\ next # <<>>
    /\ Head(next).to \in Range(gets)
    /\ Head(next).from # NoRef
    /\ Head(next).from # Head(next).to

\* What inject would have written for the injector it has just returned
\* from, had Generate called it on a new generator.
Alone == EmitInjector(newGen(CurrPackage), <<"inject", k - 1>>, inj, calls).buf

\* A piece of text without the package names that qualify its identifiers.
Unqualify(piece) ==
    CASE piece[1] = "param" -> <<"param", piece[2], piece[3][2]>>
      [] piece[1] = "results" -> <<"results", piece[2][2], piece[3]>>
      [] piece[1] = "call" -> <<"call", piece[2], piece[3], piece[4][2], piece[5]>>
      [] piece[1] = "if err" ->
            <<"if err", IF Len(piece[2]) = 2 THEN piece[2][2][2] ELSE piece[2][1]>>
      [] OTHER -> piece

Unqualified(buf) == [i \in 1..Len(buf) |-> Unqualify(buf[i])]

\* The name gs gives the package of path.
AliasOf(gs, path) == IF path = gs.currPackage THEN <<>> ELSE gs.imports[path]

\* The package names a piece of the running injector's text must carry when
\* they are read from the table of gs.
QualifiedBy(gs, piece) ==
    CASE piece[1] = "param" -> piece[3][1] = AliasOf(gs, TypePkg[piece[3][2]])
      [] piece[1] = "results" -> piece[2][1] = AliasOf(gs, TypePkg[piece[2][2]])
      [] piece[1] = "call" -> piece[4][1] = AliasOf(gs, calls[piece[2] + 1].importPath)
      [] piece[1] = "if err" ->
            Len(piece[2]) = 2 => piece[2][2][1] = AliasOf(gs, TypePkg[piece[2][2][2]])
      [] OTHER -> TRUE

C12_Provenance ==
    (ret = "err" /\ err.kind = "multiple bindings") =>
        /\ err.from # NoRef => err.how = "imported by"
        /\ err.from = NoRef => err.how = "added by injector"

\* The injector Generate is at.
Current == prog.injectors[k]

\* C13: when two entries of given are the same type (and the results are
\* well formed), solve fails with the multiple-inputs error for a type that
\* occurs twice; no provider set has been fetched or merged and no call is
\* returned, whatever the roots and the catalog are.
C13_DuplicateGiven ==
    (/\ k <= Len(prog.injectors)
     /\ Len(Current.results) \in {1, 2}
     /\ Len(Current.results) = 2 => Current.results[2] = errorType
     /\ ~NoDuplicates(Current.given)) =>
        /\ pc \in {"gen", "exit"}
        /\ pc = "exit" =>
              /\ ret = "err"
              /\ err.kind = "multiple inputs of the same type"
              /\ \E i, j \in 1..Len(Current.given) :
                    i # j /\ Current.given[i] = err.typ /\ Current.given[j] = err.typ
              /\ gets = <<>>
              /\ ndequeue = 0
              /\ mc = <<>>
              /\ pm = <<>>
              /\ calls = <<>>

\* solve has returned the multiple-inputs error for an injector whose roots
\* hold two providers of one type.
C13_Witness ==
    /\ ret = "err"
    /\ err.kind = "multiple inputs of the same type"
    /\ Conflicting

\* C14: on one cache, every call of get for a reference returns what the
\* earlier calls for that reference returned: the same set, or the same
\* error and no set.
C14_RepeatedGet ==
    \A i, j \in 1..Len(got) :
        (i < j /\ got[i].ref = got[j].ref) =>
            /\ got[j].ok = got[i].ok
            /\ got[j].mod = got[i].mod
            /\ got[j].err = got[i].err

\* No two steps of Generate can be taken from one state.
OneStep ==
    /\ pc = "gen" => ~(ENABLED Inject /\ ENABLED GenerateFrame)
    /\ pc = "bpm" =>
          /\ ~(ENABLED BPMSkip /\ ENABLED BPMVisit)
          /\ next = <<>> => ~ENABLED BPMSkip /\ ~ENABLED BPMVisit
          /\ next # <<>> => ~ENABLED SolveIndex
    /\ pc = "visit" =>
          /\ ~(ENABLED VisitEnter /\ ENABLED VisitCall)
          /\ ~(ENABLED VisitEnter /\ ENABLED VisitReturn)
          /\ ~(ENABLED VisitCall /\ ENABLED VisitReturn)
    /\ pc = "exit" => ~ENABLED Next

Holds(a, t) ==
    \/ /\ 0 <= a
       /\ a < Len(inj.given)
       /\ inj.given[a + 1] = t
    \/ /\ t \notin Range(inj.given)
       /\ Len(inj.given) <= a
       /\ a < Len(inj.given) + Len(calls)
       /\ calls[a - Len(inj.given) + 1].out = t

\* The "call" pieces of a text.
CallPieces(buf) == SelectSeq(buf, LAMBDA piece : piece[1] = "call")

\* C16: in the calls solve returns, the call for a provider has one
\* argument per input of the provider, in the order of the inputs, and
\* argument j is the slot that holds input j; the call at position k has
\* slot len(given) + k, and the text of the injector names a slot below
\* len(given) by its parameter and slot len(given) + k by the local v<k>.
C16_ArgsAreSlots ==
    /\ SolveReturned =>
          \A i \in 1..Len(calls) :
              /\ calls[i].out \in DOMAIN pm
              /\ calls[i].funcName = pm[calls[i].out].funcName
              /\ calls[i].importPath = pm[calls[i].out].importPath
              /\ Len(calls[i].args) = Len(pm[calls[i].out].args)
              /\ \A j \in 1..Len(calls[i].args) :
                    Holds(calls[i].args[j], pm[calls[i].out].args[j])
              /\ index[calls[i].out] = Len(inj.given) + (i - 1)
    /\ InjectReturned =>
          /\ Len(CallPieces(Written)) = Len(calls)
          /\ \A i \in 1..Len(calls) :
                LET piece == CallPieces(Written)[i] IN
                /\ piece[2] = i - 1
                /\ Len(piece[5]) = Len(calls[i].args)
                /\ \A j \in 1..Len(calls[i].args) :
                      LET a == calls[i].args[j] IN
                      piece[5][j] = IF a < Len(inj.given)
                                    THEN <<"param", a>>
                                    ELSE <<"v", a - Len(inj.given)>>

\* inject has written a call whose first argument is the local of the
\* call before it and whose second argument is the injector's parameter.
C16_Witness ==
    /\ InjectReturned
    /\ Len(inj.given) = 1
    /\ Len(calls) = 2
    /\ calls[2].args = <<1, 0>>

\* The plan for P1: () -> A and P2: (A) -> B.
ChainPlan ==
    <<[importPath |-> pm["A"].importPath, funcName |-> pm["A"].funcName,
       args |-> <<>>, out |-> "A", hasErr |-> pm["A"].hasErr],
      [importPath |-> pm["B"].importPath, funcName |-> pm["B"].funcName,
       args |-> <<0>>, out |-> "B", hasErr |-> pm["B"].hasErr]>>

\* The catalog binds A without inputs and B with the input A, and B is
\* wanted from no parameters.
ChainCase ==
    /\ inj.given = <<>>
    /\ inj.outType = "B"
    /\ DOMAIN pm = {"A", "B"}
    /\ pm["A"].args = <<>>
    /\ pm["B"].args = <<"A">>

\* C17: when solve returns calls, the last call's output type is want, and
\* the injector returns the local of the last call; for P1: () -> A and
\* P2: (A) -> B, want B and no givens, the calls are P1 without arguments
\* and P2 with the slot of A.
C17_LastCallIsWant ==
    /\ (SolveReturned /\ calls # <<>>) => calls[Len(calls)].out = inj.outType
    /\ (InjectReturned /\ calls # <<>>) =>
          Returns(Written) = {<<"return", <<"v", Len(calls) - 1>>>>}
    /\ (SolveReturned /\ ChainCase) => calls = ChainPlan

\* inject has written the injector of the chain.
C17_Witness ==
    /\ InjectReturned
    /\ ChainCase
    /\ calls = ChainPlan

\* The output types of the calls.
Outputs(cs) == {cs[i].out : i \in 1..Len(cs)}

\* C18: in the calls solve returns, every call's output type is want or an
\* input of the provider of a later call; the output types of the calls are
\* exactly the types reachable from want through provider inputs that are
\* not given, and no other provider of the catalog is called.
C18_NoUnneededCall ==
    SolveReturned =>
        /\ \A i \in 1..Len(calls) :
              \/ calls[i].out = inj.outType
              \/ \E n \in (i + 1)..Len(calls) :
                    calls[i].out \in Range(pm[calls[n].out].args)
        /\ Outputs(calls) =
              {t \in Reachable(pm, inj.given, inj.outType) : t \notin Range(inj.given)}
        /\ \A t \in DOMAIN pm :
              t \notin Reachable(pm, inj.given, inj.outType) => t \notin Outputs(calls)

\* solve has returned two calls from a catalog that binds a third type,
\* which want does not need.
C18_Witness ==
    /\ SolveReturned
    /\ Len(calls) = 2
    /\ \E t \in DOMAIN pm : t \notin Outputs(calls)

\* The trail of the activation at depth s of the stack is the dependency
\* path from want to the type that activation resolves.
IsPath(s) ==
    LET trail == stack[s].trail IN
    /\ trail.len = s
    /\ At(heap, trail, 1) = inj.outType
    /\ \A n \in 1..(trail.len - 1) :
          /\ At(heap, trail, n) \in DOMAIN pm
          /\ At(heap, trail, n + 1) \in Range(pm[At(heap, trail, n)].args)
    /\ stack[s].stage = "args" => At(heap, trail, trail.len) = stack[s].typ
    /\ s > 1 =>
          /\ stack[s - 1].stage = "args"
          /\ At(heap, trail, trail.len) = stack[s - 1].p.args[stack[s - 1].i - 1]
          /\ \A n \in 1..(s - 1) : At(heap, trail, n) = At(heap, stack[s - 1].trail, n)

\* C19: at every entry of visit, and for every activation of it that is
\* under way, trail is the dependency path from want to the type being
\* resolved, also when the trails of sibling calls share an array; the
\* cycle error is returned only for a type that depends on itself, and the
\* missing-provider error names the type whose provider needs the missing
\* one, or the injector when the missing type is want.
C19_TrailIsPath ==
    /\ pc = "visit" => \A s \in 1..Len(stack) : IsPath(s)
    /\ (ret = "err" /\ err.kind = "cycle") => OnCycle(pm, inj.given, err.typ)
    /\ (ret = "err" /\ err.kind = "no provider found (required by provider)") =>
          /\ err.typ \notin DOMAIN pm
          /\ err.typ \notin Range(inj.given)
          /\ err.by \in DOMAIN pm
          /\ err.typ \in Range(pm[err.by].args)
          /\ err.by \in Reachable(pm, inj.given, inj.outType)
    /\ (ret = "err" /\ err.kind = "no provider found (output of injector)") =>
          /\ err.typ = inj.outType
          /\ err.typ \notin DOMAIN pm

\* visit is entered for the second input of a provider three calls deep:
\* its trail shares the array of its sibling's, whose last type it has
\* replaced.
C19_Witness ==
    /\ pc = "visit"
    /\ Len(stack) = 4
    /\ Top.stage = "enter"
    /\ stack[3].i = 3
    /\ Len(heap) = 3
    /\ Cap(heap, Top.trail) = 4

\* The paths other than the current package asked for before call i.
AskedBefore(i) == {asked[j].path : j \in 1..(i - 1)} \ {g.currPackage}

\* The first call for the path of call i.
FirstAsked(i) == CHOOSE j \in 1..i :
    asked[j].path = asked[i].path /\ \A n \in 1..(j - 1) : asked[n].path # asked[i].path

\* C20: after any calls of qualifyImport on one generator, the current
\* package is not in the alias table and its name is empty; every call for
\* a path returns the alias of the first call for it; different paths have
\* different aliases; the aliases are pkg0 .. pkg(n-1) in the order of first
\* use, n being the alias counter, which is the size of the table.
C20_Aliases ==
    /\ g.currPackage \notin DOMAIN g.imports
    /\ g.n = Cardinality(DOMAIN g.imports)
    /\ {g.imports[path] : path \in DOMAIN g.imports} = {<<"pkg", m>> : m \in 0..(g.n - 1)}
    /\ \A x, y \in DOMAIN g.imports : x # y => g.imports[x] # g.imports[y]
    /\ DOMAIN g.imports = {asked[i].path : i \in 1..Len(asked)} \ {g.currPackage}
    /\ \A i \in 1..Len(asked) :
          IF asked[i].path = g.currPackage
          THEN asked[i].name = <<>>
          ELSE /\ asked[i].name = <<"pkg", Cardinality(AskedBefore(FirstAsked(i)))>>
               /\ asked[i].name = asked[FirstAsked(i)].name
               /\ g.imports[asked[i].path] = asked[i].name

\* qualifyImport has been called for "lib", the current package, "ext" and
\* "lib" again.
C20_Witness ==
    /\ Len(asked) = 4
    /\ asked[1].path = "lib"
    /\ asked[2].path = g.currPackage
    /\ asked[3].path = "ext"
    /\ asked[4] = asked[1]
    /\ g.n = 2

\* The provider declarations of the sets reachable from the roots.
ClosureProviders ==
    UNION {Range(SetOf(r).providers) : r \in {x \in ReachableRefs : Loadable(x)}}

\* C21: when buildProviderMap succeeds, every reachable set could be loaded
\* and the bindings are exactly the providers of the reachable sets, each
\* output type bound to the one provider declared for it, however often a
\* set is reached; the multiple-bindings error is returned only for two
\* different provider declarations of reachable sets with one output type.
C21_BindingsAreClosure ==
    /\ MergeSucceeded =>
          /\ \A r \in ReachableRefs : Loadable(r)
          /\ DOMAIN pm = {pr.out : pr \in ClosureProviders}
          /\ \A pr \in ClosureProviders : pm[pr.out] = pr
    /\ (ret = "err" /\ err.kind = "multiple bindings") =>
          /\ err.prev \in ClosureProviders
          /\ err.provider \in ClosureProviders
          /\ err.prev # err.provider
          /\ err.prev.out = err.provider.out
          /\ Conflicting

\* buildProviderMap has returned two bindings for roots that name one set
\* twice, a set that another set imports and that imports that set.
C21_Witness ==
    /\ MergeSucceeded
    /\ Len(inj.sets) = 2
    /\ inj.sets[1] = inj.sets[2]
    /\ \E r \in ReachableRefs :
          /\ r # inj.sets[1]
          /\ r \in ImportsOf(inj.sets[1])
          /\ inj.sets[1] \in ImportsOf(r)
    /\ Cardinality(DOMAIN pm) = 2

====
